---- MODULE Spec2Model ----
(***************************************************************************)
(* Model of youtube-transcript-downloader/example.py: a linear script that *)
(* lists the transcripts of a fixed video, selects the transcript when     *)
(* exactly one is listed, fetches it, converts it to raw caption entries,  *)
(* and overwrites video_transcript.txt with the entries' text joined by    *)
(* single spaces.                                                          *)
(*                                                                         *)
(* The captions library is an external collaborator: each of its calls     *)
(* (list, fetch, to_raw_data) either raises a failure or returns a value   *)
(* chosen nondeterministically.  The script has no try/except, so a raised *)
(* failure ends the run in pc = "error" with that failure.                 *)
(*                                                                         *)
(* Environment assumption: the local file system is reliable, i.e.         *)
(* open(..., "w") and f.write(...) do not raise, and the file content is   *)
(* observed at the text layer (the characters written), not as bytes.      *)
(***************************************************************************)
EXTENDS Naturals, Sequences, FiniteSets

VARIABLES
    pc,              \* position of the script: the statement to execute next
    run,             \* number of the current run of the script
    ytt_api,         \* TRUE once the client is constructed (line 9)
    transcript_list, \* None, or Some(items): the lazy sequence list() returned
    it,              \* None, or Some(k): the iterator over it, k items yielded
    transcripts,     \* the list built by the comprehension (line 16)
    transcript,      \* None, or Some(t): the selected transcript (line 17)
    my_ts,           \* None, or Some(snippets): what fetch() returned
    my_ts_l,         \* None, or Some(entries): what to_raw_data() returned
    f,               \* TRUE while the file object of the with-block is open
    file,            \* video_transcript.txt on disk: [exists, content]
    error,           \* None, or Some(failure): the uncaught failure of the run
    calls,           \* history: the calls this run has made, in order
    raised,          \* history: None, or Some([at, failure]) the collaborator raised
    fileAtStart,     \* history: the file as it was when this run started
    prev             \* history: what the previous run listed and fetched, if it wrote

vars == << pc, run, ytt_api, transcript_list, it, transcripts, transcript,
           my_ts, my_ts_l, f, file, error, calls, raised, fileAtStart, prev >>

\* ---------------------------------------------------------------- bounds
MaxTranscripts == 2   \* longest transcript list the collaborator returns
MaxEntries == 3       \* most caption entries a fetch returns
MaxRuns == 2          \* runs of the script in succession

\* ---------------------------------------------------------------- values
None == << >>
Some(x) == << x >>
IsSome(o) == o # << >>
Val(o) == o[1]

\* The second argument of open(): "w" truncates, the file position starts at 0.
OpenMode == "w"
\* The separator of the join.
Separator == << " " >>
\* The output path is fixed; one file is modelled.
OutputPath == "video_transcript.txt"

\* Caption tracks the collaborator may list for the video.
Tracks == { "en", "en-auto", "de" }
\* Failures the collaborator may raise.
Failures == { "VideoUnavailable", "TranscriptsDisabled", "RequestBlocked" }
\* Caption texts, as character sequences: empty, plain, and one with leading,
\* interior and trailing whitespace.
Texts == { << >>, << "a" >>, << " ", "a", " ", "b", " " >> }

\* Files the disk may hold before the first run.
InitialFiles == { [exists |-> FALSE, content |-> << >>],
                  [exists |-> TRUE, content |-> << "o", "l", "d" >>] }

SeqsUpTo(S, n) == UNION { [1..k -> S] : k \in 0..n }

IsInjective(s) == \A i, j \in 1..Len(s) : s[i] = s[j] => i = j

\* What list() may return: distinct tracks, in whatever order.
Listings == { s \in SeqsUpTo(Tracks, MaxTranscripts) : IsInjective(s) }

\* A fetched snippet / raw caption entry: text, start time and duration.
Snippet(t, i) == [text |-> t, start |-> i - 1, duration |-> 1]

\* What fetch() may return: an ordered sequence of snippets.
Captions == { [i \in 1..Len(ts) |-> Snippet(ts[i], i)] : ts \in SeqsUpTo(Texts, MaxEntries) }

NoPrev == [ran |-> FALSE, listed |-> None, fetched |-> None, wrote |-> FALSE]

\* ---------------------------------------------------------------- helpers
\* [x['text'] for x in my_ts_l]
TextsOf(entries) == [i \in 1..Len(entries) |-> entries[i].text]

JoinTrailingSep(sep, s) ==
    LET RECURSIVE J(_)
        J(r) == IF r = << >> THEN << >> ELSE r[1] \o sep \o J(Tail(r))
    IN J(s)

JoinSkipEmpty(sep, s) ==
    LET RECURSIVE J(_)
        J(r) == IF r = << >> THEN << >>
                ELSE IF r[1] = << >> THEN J(Tail(r))
                ELSE IF J(Tail(r)) = << >> THEN r[1]
                ELSE r[1] \o sep \o J(Tail(r))
    IN J(s)

\* sep.join(s): the items in order, sep between each two neighbours.
Join(sep, s) ==
    LET RECURSIVE J(_)
        J(r) == IF r = << >> THEN << >>
                ELSE IF Len(r) = 1 THEN r[1]
                ELSE r[1] \o sep \o J(Tail(r))
    IN J(s)

Count(s, c) == Cardinality({ i \in 1..Len(s) : s[i] = c })

\* An uncaught failure: the run stops with it.
Uncaught(at, failure) ==
    /\ pc' = "error"
    /\ error' = Some(failure)
    /\ raised' = Some([at |-> at, failure |-> failure])

\* ---------------------------------------------------------------- Init
Init ==
    /\ pc = "construct"
    /\ run = 1
    /\ ytt_api = FALSE
    /\ transcript_list = None
    /\ it = None
    /\ transcripts = << >>
    /\ transcript = None
    /\ my_ts = None
    /\ my_ts_l = None
    /\ f = FALSE
    /\ file \in InitialFiles
    /\ error = None
    /\ calls = << >>
    /\ raised = None
    /\ fileAtStart = file
    /\ prev = NoPrev

\* ---------------------------------------------------------------- actions
\* line 9: ytt_api = YouTubeTranscriptApi()
Construct ==
    /\ pc = "construct"
    /\ ytt_api' = TRUE
    /\ pc' = "list"
    /\ UNCHANGED << run, transcript_list, it, transcripts, transcript, my_ts,
                    my_ts_l, f, file, error, calls, raised, fileAtStart, prev >>

ListWrapped ==
    /\ pc = "list"
    /\ calls' = Append(calls, "list")
    /\ \/ \E x \in Failures :
            /\ pc' = "error"
            /\ error' = Some("RuntimeError")
            /\ raised' = Some([at |-> "list", failure |-> x])
            /\ UNCHANGED transcript_list
       \/ \E items \in Listings :
            /\ transcript_list' = Some(items)
            /\ pc' = "materialize"
            /\ UNCHANGED << error, raised >>
    /\ UNCHANGED << run, ytt_api, it, transcripts, transcript, my_ts, my_ts_l,
                    f, file, fileAtStart, prev >>

\* line 14: transcript_list = ytt_api.list(VIDEO_ID)
List ==
    /\ pc = "list"
    /\ calls' = Append(calls, "list")
    /\ \/ \E x \in Failures :
            /\ Uncaught("list", x)
            /\ UNCHANGED transcript_list
       \/ \E items \in Listings :
            /\ transcript_list' = Some(items)
            /\ pc' = "materialize"
            /\ UNCHANGED << error, raised >>
    /\ UNCHANGED << run, ytt_api, it, transcripts, transcript, my_ts, my_ts_l,
                    f, file, fileAtStart, prev >>

\* line 16: the comprehension calls iter(transcript_list) once
IterOpen ==
    /\ pc = "materialize"
    /\ it = None
    /\ it' = Some(0)
    /\ calls' = Append(calls, "iter")
    /\ UNCHANGED << pc, run, ytt_api, transcript_list, transcripts, transcript,
                    my_ts, my_ts_l, f, file, error, raised, fileAtStart, prev >>

\* line 16: next() yields an item, which the comprehension appends
IterNext ==
    /\ pc = "materialize"
    /\ IsSome(it)
    /\ Val(it) < Len(Val(transcript_list))
    /\ transcripts' = Append(transcripts, Val(transcript_list)[Val(it) + 1])
    /\ it' = Some(Val(it) + 1)
    /\ calls' = Append(calls, "next")
    /\ UNCHANGED << pc, run, ytt_api, transcript_list, transcript, my_ts,
                    my_ts_l, f, file, error, raised, fileAtStart, prev >>

IterStopAtFirst ==
    /\ pc = "materialize"
    /\ IsSome(it)
    /\ \/ Val(it) = Len(Val(transcript_list))
       \/ Val(it) >= 1
    /\ calls' = Append(calls, "next")
    /\ pc' = "select"
    /\ UNCHANGED << run, ytt_api, transcript_list, it, transcripts, transcript,
                    my_ts, my_ts_l, f, file, error, raised, fileAtStart, prev >>

\* line 16: next() signals the end (StopIteration) and the comprehension ends
IterStop ==
    /\ pc = "materialize"
    /\ IsSome(it)
    /\ Val(it) = Len(Val(transcript_list))
    /\ calls' = Append(calls, "next")
    /\ pc' = "select"
    /\ UNCHANGED << run, ytt_api, transcript_list, it, transcripts, transcript,
                    my_ts, my_ts_l, f, file, error, raised, fileAtStart, prev >>

SelectFirst ==
    /\ pc = "select"
    /\ transcript' = IF Len(transcripts) >= 1 THEN Some(transcripts[1]) ELSE None
    /\ pc' = "test"
    /\ UNCHANGED << run, ytt_api, transcript_list, it, transcripts, my_ts,
                    my_ts_l, f, file, error, calls, raised, fileAtStart, prev >>

SelectUnguarded ==
    /\ pc = "select"
    /\ IF Len(transcripts) >= 1
       THEN /\ transcript' = IF Len(transcripts) = 1 THEN Some(transcripts[1]) ELSE None
            /\ pc' = "test"
            /\ UNCHANGED error
       ELSE /\ pc' = "error"
            /\ error' = Some("IndexError")
            /\ UNCHANGED transcript
    /\ UNCHANGED << run, ytt_api, transcript_list, it, transcripts, my_ts,
                    my_ts_l, f, file, calls, raised, fileAtStart, prev >>

\* line 17: transcript = transcripts[0] if len(transcripts) == 1 else None
Select ==
    /\ pc = "select"
    /\ transcript' = IF Len(transcripts) = 1 THEN Some(transcripts[1]) ELSE None
    /\ pc' = "test"
    /\ UNCHANGED << run, ytt_api, transcript_list, it, transcripts, my_ts,
                    my_ts_l, f, file, error, calls, raised, fileAtStart, prev >>

\* line 18: if transcript is not None
TestSelected ==
    /\ pc = "test"
    /\ pc' = IF transcript # None THEN "fetch" ELSE "done"
    /\ UNCHANGED << run, ytt_api, transcript_list, it, transcripts, transcript,
                    my_ts, my_ts_l, f, file, error, calls, raised, fileAtStart,
                    prev >>

FetchSwallow ==
    /\ pc = "fetch"
    /\ calls' = Append(calls, "fetch")
    /\ \/ \E x \in Failures :
            /\ my_ts' = Some(<< >>)
            /\ pc' = "convert"
            /\ raised' = Some([at |-> "fetch", failure |-> x])
            /\ UNCHANGED error
       \/ \E c \in Captions :
            /\ my_ts' = Some(c)
            /\ pc' = "convert"
            /\ UNCHANGED << error, raised >>
    /\ UNCHANGED << run, ytt_api, transcript_list, it, transcripts, transcript,
                    my_ts_l, f, file, fileAtStart, prev >>

\* line 19: my_ts = transcript.fetch()
Fetch ==
    /\ pc = "fetch"
    /\ calls' = Append(calls, "fetch")
    /\ \/ \E x \in Failures :
            /\ Uncaught("fetch", x)
            /\ UNCHANGED my_ts
       \/ \E c \in Captions :
            /\ my_ts' = Some(c)
            /\ pc' = "convert"
            /\ UNCHANGED << error, raised >>
    /\ UNCHANGED << run, ytt_api, transcript_list, it, transcripts, transcript,
                    my_ts_l, f, file, fileAtStart, prev >>

ConvertSkipEmpty ==
    /\ pc = "convert"
    /\ calls' = Append(calls, "to_raw_data")
    /\ \/ \E x \in Failures :
            /\ Uncaught("to_raw_data", x)
            /\ UNCHANGED my_ts_l
       \/ /\ my_ts_l' = Some(Val(my_ts))
          /\ pc' = IF Val(my_ts) = << >> THEN "done" ELSE "open"
          /\ UNCHANGED << error, raised >>
    /\ UNCHANGED << run, ytt_api, transcript_list, it, transcripts, transcript,
                    my_ts, f, file, fileAtStart, prev >>

\* line 20: my_ts_l = my_ts.to_raw_data(): one dict per snippet, same fields
Convert ==
    /\ pc = "convert"
    /\ calls' = Append(calls, "to_raw_data")
    /\ \/ \E x \in Failures :
            /\ Uncaught("to_raw_data", x)
            /\ UNCHANGED my_ts_l
       \/ /\ my_ts_l' = Some(Val(my_ts))
          /\ pc' = "open"
          /\ UNCHANGED << error, raised >>
    /\ UNCHANGED << run, ytt_api, transcript_list, it, transcripts, transcript,
                    my_ts, f, file, fileAtStart, prev >>

OpenAppend ==
    /\ pc = "open"
    /\ file' = [exists |-> TRUE, content |-> file.content]
    /\ f' = TRUE
    /\ calls' = Append(calls, "open")
    /\ pc' = "write"
    /\ UNCHANGED << run, ytt_api, transcript_list, it, transcripts, transcript,
                    my_ts, my_ts_l, error, raised, fileAtStart, prev >>

\* line 21: with open("video_transcript.txt", "w") as f: create or truncate
Open ==
    /\ pc = "open"
    /\ file' = [exists |-> TRUE,
                content |-> IF OpenMode = "w" THEN << >> ELSE file.content]
    /\ f' = TRUE
    /\ calls' = Append(calls, "open")
    /\ pc' = "write"
    /\ UNCHANGED << run, ytt_api, transcript_list, it, transcripts, transcript,
                    my_ts, my_ts_l, error, raised, fileAtStart, prev >>

WritePerEntry ==
    /\ pc = "write"
    /\ f
    /\ file' = [file EXCEPT !.content = @ \o Join(Separator, TextsOf(Val(my_ts_l)))]
    /\ calls' = calls \o [i \in 1..Len(Val(my_ts_l)) |-> "write"]
    /\ pc' = "close"
    /\ UNCHANGED << run, ytt_api, transcript_list, it, transcripts, transcript,
                    my_ts, my_ts_l, f, error, raised, fileAtStart, prev >>

\* line 22: f.write(' '.join([x['text'] for x in my_ts_l]))
Write ==
    /\ pc = "write"
    /\ f
    /\ file' = [file EXCEPT !.content = @ \o Join(Separator, TextsOf(Val(my_ts_l)))]
    /\ calls' = Append(calls, "write")
    /\ pc' = "close"
    /\ UNCHANGED << run, ytt_api, transcript_list, it, transcripts, transcript,
                    my_ts, my_ts_l, f, error, raised, fileAtStart, prev >>

\* lines 21-22: leaving the with-block closes the file; the script ends
Close ==
    /\ pc = "close"
    /\ f' = FALSE
    /\ pc' = "done"
    /\ UNCHANGED << run, ytt_api, transcript_list, it, transcripts, transcript,
                    my_ts, my_ts_l, file, error, calls, raised, fileAtStart,
                    prev >>

\* The script is run again: a fresh process, the file stays on disk.
Rerun ==
    /\ pc \in { "done", "error" }
    /\ run < MaxRuns
    /\ run' = run + 1
    /\ pc' = "construct"
    /\ ytt_api' = FALSE
    /\ transcript_list' = None
    /\ it' = None
    /\ transcripts' = << >>
    /\ transcript' = None
    /\ my_ts' = None
    /\ my_ts_l' = None
    /\ f' = FALSE
    /\ error' = None
    /\ calls' = << >>
    /\ raised' = None
    /\ fileAtStart' = file
    /\ prev' = IF Count(calls, "write") > 0
               THEN [ran |-> TRUE, listed |-> transcript_list,
                     fetched |-> my_ts_l, wrote |-> TRUE]
               ELSE [NoPrev EXCEPT !.ran = TRUE]
    /\ UNCHANGED file

Next ==
    \/ Construct
    \/ List
    \/ IterOpen
    \/ IterNext
    \/ IterStop
    \/ Select
    \/ TestSelected
    \/ Fetch
    \/ Convert
    \/ Open
    \/ Write
    \/ Close
    \/ Rerun

Spec == Init /\ [][Next]_vars

\* ---------------------------------------------------------------- properties
NCalls(name) == Count(calls, name)

Listed == IsSome(transcript_list)
ListedOne == Listed /\ Len(Val(transcript_list)) = 1
RunEnded == pc \in { "done", "error" }
RaisedAt(places) == IsSome(raised) /\ Val(raised).at \in places

\* Sum of the lengths of the first k texts.
RECURSIVE SumLen(_, _)
SumLen(ts, k) == IF k = 0 THEN 0 ELSE SumLen(ts, k - 1) + Len(ts[k])

\* Where text i starts in the output: after i-1 texts and i-1 separators.
Offset(ts, i) == SumLen(ts, i - 1) + (i - 1)

\* The output holds text 1..n in order, one space between neighbours, nothing else.
IsSpacedConcat(out, ts) ==
    LET n == Len(ts) IN
    /\ Len(out) = IF n = 0 THEN 0 ELSE SumLen(ts, n) + (n - 1)
    /\ \A i \in 1..n :
          SubSeq(out, Offset(ts, i) + 1, Offset(ts, i) + Len(ts[i])) = ts[i]
    /\ \A i \in 1..(n - 1) : out[Offset(ts, i) + Len(ts[i]) + 1] = " "

\* C1: when exactly one transcript is listed and its fetch yields entries
\* e1..en, the run ends with the output file holding text(e1) ' ' ... ' '
\* text(en): every text, in order, single spaces between, nothing added.
C1_SingleTranscriptOutput ==
    (RunEnded /\ ListedOne /\ IsSome(my_ts_l))
        => /\ pc = "done"
           /\ file.exists
           /\ IsSpacedConcat(file.content, TextsOf(Val(my_ts_l)))

C1_Witness ==
    /\ pc = "done"
    /\ ListedOne
    /\ IsSome(my_ts_l)
    /\ TextsOf(Val(my_ts_l)) = << << "a" >>, << "a" >> >>
    /\ file.content = << "a", " ", "a" >>

\* C2: when list returns two or more transcripts the run selects none of
\* them, never calls fetch, and the output file keeps the existence and
\* content it had at the start of the run.
C2_MultiTranscriptNoOp ==
    (Listed /\ Len(Val(transcript_list)) >= 2)
        => /\ transcript = None
           /\ NCalls("fetch") = 0
           /\ NCalls("open") = 0
           /\ file = fileAtStart
           /\ pc # "error"

C2_Witness ==
    /\ pc = "done"
    /\ Listed
    /\ Len(Val(transcript_list)) = 2
    /\ transcripts = Val(transcript_list)
    /\ file.exists

\* C3: when list returns an empty sequence without raising, the run ends
\* normally with no error, never calls fetch, and the output file is neither
\* created nor modified.
C3_ZeroTranscriptNoOp ==
    (Listed /\ Val(transcript_list) = << >>)
        => /\ pc \in { "materialize", "select", "test", "done" }
           /\ error = None
           /\ NCalls("fetch") = 0
           /\ NCalls("open") = 0
           /\ file = fileAtStart

C3_Witness ==
    /\ pc = "done"
    /\ Listed
    /\ Val(transcript_list) = << >>
    /\ ~file.exists

\* C4: a second run in which the collaborator returns the same single
\* transcript and the same entries as in the run before leaves the output
\* file identical to what the run before left: overwrite, never append.
C4_RerunIdempotent ==
    (/\ pc = "done"
     /\ prev.ran
     /\ prev.wrote
     /\ ListedOne
     /\ prev.listed = transcript_list
     /\ IsSome(my_ts_l)
     /\ prev.fetched = my_ts_l)
        => file = fileAtStart

C4_Witness ==
    /\ pc = "done"
    /\ run = 2
    /\ prev.wrote
    /\ ListedOne
    /\ prev.listed = transcript_list
    /\ IsSome(my_ts_l)
    /\ prev.fetched = my_ts_l
    /\ NCalls("write") = 1
    /\ file.content = << "a", " ", "a" >>

\* C5: a failure raised by the list call is not caught, wrapped or replaced:
\* the run ends in error with that same failure, nothing is selected or
\* fetched, and the output file is not created or modified.
C5_ListFailurePropagates ==
    RaisedAt({ "list" })
        => /\ pc = "error"
           /\ error = Some(Val(raised).failure)
           /\ calls = << "list" >>
           /\ transcript_list = None
           /\ transcripts = << >>
           /\ transcript = None
           /\ file = fileAtStart

C5_Witness ==
    /\ pc = "error"
    /\ RaisedAt({ "list" })
    /\ error = Some("TranscriptsDisabled")
    /\ file.exists

\* C6: the join puts exactly one space at each of the n-1 boundaries and
\* changes nothing inside an entry: empty texts keep their boundaries,
\* whitespace inside a text is kept, and the output length is the sum of the
\* text lengths plus n-1 for n >= 1.
RECURSIVE Flatten(_)
Flatten(ts) == IF ts = << >> THEN << >> ELSE ts[1] \o Flatten(Tail(ts))

NotSpace(c) == c # " "

C6_OneSpacePerBoundary ==
    (pc = "done" /\ ListedOne /\ IsSome(my_ts_l) /\ Len(Val(my_ts_l)) >= 1)
        => LET ts == TextsOf(Val(my_ts_l))
               n == Len(ts)
           IN /\ Len(file.content) = SumLen(ts, n) + (n - 1)
              /\ Count(file.content, " ") = Count(Flatten(ts), " ") + (n - 1)
              /\ SelectSeq(file.content, NotSpace) = SelectSeq(Flatten(ts), NotSpace)

C6_Witness ==
    /\ pc = "done"
    /\ ListedOne
    /\ IsSome(my_ts_l)
    /\ TextsOf(Val(my_ts_l)) = << << "a" >>, << >>, << " ", "a", " ", "b", " " >> >>
    /\ file.content = << "a", " ", " ", " ", "a", " ", "b", " " >>

\* C7: the lazy sequence is enumerated exactly once and to its end before
\* the exactly-one check: no item is requested afterwards, it is never
\* enumerated again, and selection works on the materialized collection.
Materialized == Listed /\ pc \notin { "list", "materialize" }

C7_EnumeratedOnceBeforeCheck ==
    /\ NCalls("iter") <= 1
    /\ Materialized
        => LET items == Val(transcript_list) IN
           /\ NCalls("iter") = 1
           /\ NCalls("next") = Len(items) + 1
           /\ it = Some(Len(items))
           /\ transcripts = items
           /\ SubSeq(calls, 1, Len(items) + 3)
                 = << "list", "iter" >> \o [i \in 1..(Len(items) + 1) |-> "next"]
    /\ IsSome(transcript)
        => /\ Materialized
           /\ transcripts = << Val(transcript) >>

C7_Witness ==
    /\ pc = "done"
    /\ Materialized
    /\ Len(Val(transcript_list)) = 2
    /\ NCalls("next") = 3

\* C8: when the one listed transcript's fetch, or the conversion of what it
\* fetched, raises, the failure propagates uncaught with no retry and the
\* output file is not created, truncated or modified by that run.
C8_FetchFailureLeavesFile ==
    RaisedAt({ "fetch", "to_raw_data" })
        => /\ pc = "error"
           /\ error = Some(Val(raised).failure)
           /\ NCalls("fetch") = 1
           /\ NCalls("to_raw_data") <= 1
           /\ calls[Len(calls)] = Val(raised).at
           /\ NCalls("open") = 0
           /\ NCalls("write") = 0
           /\ file = fileAtStart

C8_Witness ==
    /\ pc = "error"
    /\ RaisedAt({ "fetch" })
    /\ file.exists
    /\ file.content = << "o", "l", "d" >>

\* C9: in every run the file is opened at most once and written at most
\* once; it is written exactly when list succeeded with one transcript and
\* that transcript's fetch and conversion succeeded; and the steps happen
\* in the order list, materialize, select, fetch, convert, open, write.
NotNext(c) == c # "next"

IsPrefix(s, t) == Len(s) <= Len(t) /\ s = SubSeq(t, 1, Len(s))

StepOrder == << "list", "iter", "fetch", "to_raw_data", "open", "write" >>

C9_WriteOnceInOrder ==
    /\ NCalls("open") <= 1
    /\ NCalls("write") <= 1
    /\ RunEnded
        => (NCalls("write") = 1
               <=> (ListedOne /\ IsSome(my_ts) /\ IsSome(my_ts_l)))
    /\ IsPrefix(SelectSeq(calls, NotNext), StepOrder)
    /\ NCalls("next") > 0 => NCalls("iter") = 1
    /\ IsSome(transcript) => Materialized
    /\ NCalls("fetch") > 0 => (IsSome(transcript) /\ pc \notin { "select", "test" })

C9_Witness ==
    /\ pc = "done"
    /\ calls = << "list", "iter", "next", "next", "fetch", "to_raw_data",
                  "open", "write" >>
    /\ Len(Val(my_ts_l)) = 2

\* C10: when the one listed transcript fetches with zero entries the run
\* still opens the file truncating and writes the empty string: the file
\* exists and is empty afterwards, previous content lost; a run that ends
\* normally without a write had a non-singleton list.
C10_EmptyTranscriptTruncates ==
    /\ (RunEnded /\ ListedOne /\ IsSome(my_ts_l) /\ Val(my_ts_l) = << >>)
        => /\ pc = "done"
           /\ NCalls("open") = 1
           /\ NCalls("write") = 1
           /\ file = [exists |-> TRUE, content |-> << >>]
    /\ (pc = "done" /\ NCalls("write") = 0) => ~ListedOne

C10_Witness ==
    /\ pc = "done"
    /\ ListedOne
    /\ my_ts_l = Some(<< >>)
    /\ fileAtStart.content = << "o", "l", "d" >>
    /\ file = [exists |-> TRUE, content |-> << >>]

====
